---- MODULE Spec2Model ----
(***************************************************************************)
(* Model of wav2ogg.py: convert_wav_to_ogg(directory).                     *)
(*                                                                         *)
(* File names and paths are sequences of one-character strings, so that    *)
(* str.lower, str.endswith, os.path.splitext and os.path.join are computed *)
(* character by character.  The environment (is ffmpeg on the PATH, what   *)
(* os.listdir does, how each ffmpeg run ends, whether os.remove succeeds)  *)
(* is chosen nondeterministically.  print is taken to be total.            *)
(***************************************************************************)
EXTENDS Integers, Sequences, FiniteSets, TLC

VARIABLES
    pc,            \* position in convert_wav_to_ogg
    directory,     \* the argument
    ffmpeg_found,  \* environment: shutil.which("ffmpeg") is not None
    dir_state,     \* environment: what os.listdir(directory) does
    listing,       \* environment: what os.listdir returns when it succeeds
    fs,            \* environment: the paths that exist
    fs0,           \* the paths that existed when the function was called
    all_files,     \* local
    wav_files,     \* local
    idx,           \* position of the for loop in wav_files (1-based)
    exc,           \* the exception that left the function, or "none"
    log            \* everything the function did, in order

vars == <<pc, directory, ffmpeg_found, dir_state, listing, fs, fs0,
          all_files, wav_files, idx, exc, log>>

----------------------------------------------------------------------------
(* Bounds *)

MaxFiles == 2

----------------------------------------------------------------------------
(* Characters and strings *)

DOT == "."
SEP == "/"

WAV == <<".", "w", "a", "v">>
OGG == <<".", "o", "g", "g">>

\* str.lower on the characters used here
LowerChar(c) ==
    CASE c = "A" -> "a"
      [] c = "W" -> "w"
      [] c = "V" -> "v"
      [] OTHER -> c

Lower(s) == [i \in 1..Len(s) |-> LowerChar(s[i])]

\* str.endswith
EndsWith(s, suffix) ==
    /\ Len(s) >= Len(suffix)
    /\ SubSeq(s, Len(s) - Len(suffix) + 1, Len(s)) = suffix

\* str.rfind(DOT), 1-based, 0 when absent
RFindDot(p) ==
    LET D == {i \in 1..Len(p) : p[i] = DOT}
    IN  IF D = {} THEN 0 ELSE CHOOSE i \in D : \A j \in D : j <= i

\* a mutant of SplitExt: splits at the first dot
SplitExtFirstDot(p) ==
    LET D == {i \in 1..Len(p) : p[i] = DOT}
        f == IF D = {} THEN 0 ELSE CHOOSE i \in D : \A j \in D : i <= j
    IN  IF f > 1
        THEN <<SubSeq(p, 1, f - 1), SubSeq(p, f, Len(p))>>
        ELSE <<p, <<>>>>

\* os.path.splitext on a name without separators: the extension starts at
\* the last dot, unless only dots precede it (then there is no extension)
SplitExt(p) ==
    LET dotIndex == RFindDot(p)
    IN  IF /\ dotIndex > 0
           /\ \E k \in 1..(dotIndex - 1) : p[k] # DOT
        THEN <<SubSeq(p, 1, dotIndex - 1), SubSeq(p, dotIndex, Len(p))>>
        ELSE <<p, <<>>>>

\* os.path.join(a, b) for a relative b
Join(a, b) ==
    IF a = <<>> THEN b
    ELSE IF a[Len(a)] = SEP THEN a \o b
    ELSE a \o <<SEP>> \o b

----------------------------------------------------------------------------
(* The pieces of convert_wav_to_ogg *)

\* a mutant of IsWav: the comparison without lower()
IsWavCaseSensitive(f) == EndsWith(f, WAV)

\* the filter condition: f.lower().endswith(".wav")
IsWav(f) == EndsWith(Lower(f), WAV)

\* the list comprehension [f for f in all_files if f.lower().endswith(".wav")]
RECURSIVE WavFiles(_)
WavFiles(files) ==
    IF files = <<>> THEN <<>>
    ELSE IF IsWav(Head(files))
         THEN <<Head(files)>> \o WavFiles(Tail(files))
         ELSE WavFiles(Tail(files))

\* a mutant of NoWavFiles: the empty check is missing
NoWavFilesNever(w) == FALSE

\* if not wav_files
NoWavFiles(w) == w = <<>>

\* a mutant of FFmpegMissing: the dependency check is missing
FFmpegMissingNever(found) == FALSE

\* if not shutil.which("ffmpeg")
FFmpegMissing(found) == ~found

OggFilename(wav_filename) == SplitExt(wav_filename)[1] \o OGG

\* a mutant of WavFilePath: the path of the output instead of the input
WavFilePathOfOgg(d, wav_filename) == Join(d, OggFilename(wav_filename))

WavFilePath(d, wav_filename) == Join(d, wav_filename)

OggFilePath(d, wav_filename) == Join(d, OggFilename(wav_filename))

\* a mutant of CheckReturncode: check=True is missing
CheckReturncodeOff(status) == TRUE

\* subprocess.run(..., check=True) returns normally iff the status is zero
CheckReturncode(status) == status = 0

\* a mutant of AfterHandler: the generic handler re-raises
AfterHandlerReraise(kind) == IF kind = "unexpected" THEN "raised" ELSE "loop"

\* both except clauses swallow the exception: the for loop goes on
AfterHandler(kind) == "loop"

----------------------------------------------------------------------------
(* The log *)

Ev(e, m, f, p, o, k) ==
    [ev |-> e, msg |-> m, file |-> f, path |-> p, out |-> o, n |-> k]

Which == Ev("which", "", <<>>, <<>>, <<>>, 0)
ListDir(d) == Ev("listdir", "", <<>>, d, <<>>, 0)
Run(f, p, o) == Ev("run", "", f, p, o, 0)
\* the child ended with status k; m says whether it wrote its output path
Exit(f, o, k, m) == Ev("exit", m, f, <<>>, o, k)
\* os.remove(p); k = 1 when it succeeded
Remove(f, p, k) == Ev("remove", "", f, p, <<>>, k)
Msg(m, f, p, o, k) == Ev("print", m, f, p, o, k)

----------------------------------------------------------------------------
(* The environment *)

Dirs == { <<".">>, <<"d", "/">> }

DirStates == {"ok", "missing", "notdir", "denied"}

Names == {
    <<"a", ".", "w", "a", "v">>,
    <<"a", ".", "W", "A", "V">>,
    <<"A", ".", "b", ".", "W", "a", "v">>,
    <<".", "w", "a", "v">>,
    <<".", ".", "w", "a", "v">>,
    <<".", "a", ".", "w", "a", "v">>,
    <<"a", ".", "o", "g", "g">>,
    <<"w", "a", "v">>,
    <<"a", ".", "w", "a", "v", "e">> }

\* a directory listing: distinct names in any order
Listings ==
    UNION { { s \in [1..n -> Names] : \A i, j \in 1..n : i # j => s[i] # s[j] }
            : n \in 0..MaxFiles }

----------------------------------------------------------------------------
(* The state machine *)

Init ==
    /\ pc = "start"
    /\ directory \in Dirs
    /\ ffmpeg_found \in BOOLEAN
    /\ dir_state \in DirStates
    /\ listing \in Listings
    /\ dir_state # "ok" => listing = <<>>
    /\ fs = { Join(directory, listing[i]) : i \in 1..Len(listing) }
    /\ fs0 = fs
    /\ all_files = <<>>
    /\ wav_files = <<>>
    /\ idx = 0
    /\ exc = "none"
    /\ log = <<>>

\* step 1: the dependency check
CheckFFmpeg ==
    /\ pc = "start"
    /\ IF FFmpegMissing(ffmpeg_found)
       THEN /\ log' = log \o << Which,
                                Msg("no_ffmpeg", <<>>, <<>>, <<>>, 0),
                                Msg("install_hint", <<>>, <<>>, <<>>, 0) >>
            /\ pc' = "done"
       ELSE /\ log' = Append(log, Which)
            /\ pc' = "list"
    /\ UNCHANGED <<directory, ffmpeg_found, dir_state, listing, fs, fs0,
                   all_files, wav_files, idx, exc>>

\* step 2: os.listdir succeeds; filter, empty check, start message
ListDirectoryOk ==
    /\ pc = "list"
    /\ dir_state = "ok"
    /\ all_files' = listing
    /\ wav_files' = WavFiles(listing)
    /\ IF NoWavFiles(wav_files')
       THEN /\ log' = log \o << ListDir(directory),
                                Msg("no_wav", <<>>, directory, <<>>, 0) >>
            /\ pc' = "done"
            /\ idx' = idx
       ELSE /\ log' = log \o << ListDir(directory),
                                Msg("found", <<>>, <<>>, <<>>, Len(wav_files')) >>
            /\ pc' = "loop"
            /\ idx' = 1
    /\ UNCHANGED <<directory, ffmpeg_found, dir_state, listing, fs, fs0, exc>>

\* step 2: os.listdir raises FileNotFoundError, which is caught
ListDirectoryMissing ==
    /\ pc = "list"
    /\ dir_state = "missing"
    /\ log' = log \o << ListDir(directory),
                        Msg("dir_not_found", <<>>, directory, <<>>, 0) >>
    /\ pc' = "done"
    /\ UNCHANGED <<directory, ffmpeg_found, dir_state, listing, fs, fs0,
                   all_files, wav_files, idx, exc>>

\* step 2: os.listdir raises another OSError; only FileNotFoundError is caught
ListDirectoryRaises ==
    /\ pc = "list"
    /\ dir_state \in {"notdir", "denied"}
    /\ log' = Append(log, ListDir(directory))
    /\ exc' = IF dir_state = "notdir" THEN "NotADirectoryError" ELSE "PermissionError"
    /\ pc' = "raised"
    /\ UNCHANGED <<directory, ffmpeg_found, dir_state, listing, fs, fs0,
                   all_files, wav_files, idx>>

\* steps 3 and 4: the paths, the command, subprocess.run starts the child;
\* or the child cannot be started and the generic handler reports it
Spawn ==
    /\ pc = "loop"
    /\ idx <= Len(wav_files)
    /\ LET wav_filename == wav_files[idx]
           run == Run(wav_filename, WavFilePath(directory, wav_filename),
                      OggFilePath(directory, wav_filename))
       IN  \/ /\ log' = Append(log, run)
              /\ pc' = "wait"
              /\ idx' = idx
           \/ /\ log' = log \o << run,
                                  Msg("unexpected", wav_filename, <<>>, <<>>, 0) >>
              /\ pc' = AfterHandler("unexpected")
              /\ idx' = idx + 1
    /\ UNCHANGED <<directory, ffmpeg_found, dir_state, listing, fs, fs0,
                   all_files, wav_files, exc>>

\* step 4: the child ends; with check=True a non-zero status raises
\* CalledProcessError, which is caught and reported
EncoderExits ==
    /\ pc = "wait"
    /\ LET wav_filename == wav_files[idx]
           ogg_filename == OggFilename(wav_filename)
           ogg_file_path == OggFilePath(directory, wav_filename)
       IN  \E status \in {0, 1}, wrote \in BOOLEAN :
             /\ fs' = IF wrote THEN fs \cup {ogg_file_path} ELSE fs
             /\ LET exit == Exit(wav_filename, ogg_file_path, status,
                                 IF wrote THEN "wrote" ELSE "")
                IN  IF CheckReturncode(status)
                    THEN /\ log' = log \o << exit,
                                 Msg("success", wav_filename, <<>>, ogg_filename, 0) >>
                         /\ pc' = "remove"
                         /\ idx' = idx
                    ELSE /\ log' = log \o << exit,
                                 Msg("failed", wav_filename, <<>>, <<>>, 0),
                                 Msg("ffmpeg_error", wav_filename, <<>>, <<>>, 0) >>
                         /\ pc' = AfterHandler("failed")
                         /\ idx' = idx + 1
    /\ UNCHANGED <<directory, ffmpeg_found, dir_state, listing, fs0,
                   all_files, wav_files, exc>>

\* step 4: os.remove(wav_file_path); an OSError is caught by the generic handler
RemoveOriginal ==
    /\ pc = "remove"
    /\ LET wav_filename == wav_files[idx]
           wav_file_path == WavFilePath(directory, wav_filename)
       IN  \/ /\ wav_file_path \in fs
              /\ fs' = fs \ {wav_file_path}
              /\ log' = log \o << Remove(wav_filename, wav_file_path, 1),
                                  Msg("deleted", wav_filename, <<>>, <<>>, 0) >>
              /\ pc' = "loop"
           \/ /\ fs' = fs
              /\ log' = log \o << Remove(wav_filename, wav_file_path, 0),
                                  Msg("unexpected", wav_filename, <<>>, <<>>, 0) >>
              /\ pc' = AfterHandler("unexpected")
    /\ idx' = idx + 1
    /\ UNCHANGED <<directory, ffmpeg_found, dir_state, listing, fs0,
                   all_files, wav_files, exc>>

\* the completion message after the loop
Finish ==
    /\ pc = "loop"
    /\ idx > Len(wav_files)
    /\ log' = Append(log, Msg("finished", <<>>, <<>>, <<>>, 0))
    /\ pc' = "done"
    /\ UNCHANGED <<directory, ffmpeg_found, dir_state, listing, fs, fs0,
                   all_files, wav_files, idx, exc>>

Next ==
    \/ CheckFFmpeg
    \/ ListDirectoryOk
    \/ ListDirectoryMissing
    \/ ListDirectoryRaises
    \/ Spawn
    \/ EncoderExits
    \/ RemoveOriginal
    \/ Finish

Spec == Init /\ [][Next]_vars

\* os.listdir replaced by a stub: any sequence of names, repetitions included
AnyListings == UNION { [1..n -> Names] : n \in 0..MaxFiles }

InitAnyListing ==
    /\ pc = "start"
    /\ directory \in Dirs
    /\ ffmpeg_found \in BOOLEAN
    /\ dir_state \in DirStates
    /\ listing \in AnyListings
    /\ dir_state # "ok" => listing = <<>>
    /\ fs = { Join(directory, listing[i]) : i \in 1..Len(listing) }
    /\ fs0 = fs
    /\ all_files = <<>>
    /\ wav_files = <<>>
    /\ idx = 0
    /\ exc = "none"
    /\ log = <<>>

SpecAnyListing == InitAnyListing /\ [][Next]_vars

----------------------------------------------------------------------------
(* Vocabulary of the properties *)

LogIdx == 1..Len(log)

Said(i, m) == log[i].ev = "print" /\ log[i].msg = m

IsRunEv(e) == e.ev = "run"
IsSuccessMsg(e) == e.ev = "print" /\ e.msg = "success"
IsFinishedMsg(e) == e.ev = "print" /\ e.msg = "finished"

FilesOf(events) == [i \in 1..Len(events) |-> events[i].file]

\* the files subprocess.run was called for, in order
RunFiles == FilesOf(SelectSeq(log, IsRunEv))

\* the files of the success messages, in order
SuccessFiles == FilesOf(SelectSeq(log, IsSuccessMsg))

\* the name is base + a four-character suffix that is ".wav" in some casing
HasWavSuffix(f) ==
    /\ Len(f) >= 4
    /\ \A k \in 1..4 : LowerChar(f[Len(f) - 4 + k]) = WAV[k]

BaseOf(f) == SubSeq(f, 1, Len(f) - 4)

Listed(f) == \E i \in 1..Len(listing) : listing[i] = f

Started == pc \notin {"start", "list"}

\* the encoder exited zero for file f at position i of the log
ExitedZero(i, f) == log[i].ev = "exit" /\ log[i].n = 0 /\ log[i].file = f

TypeOK ==
    /\ pc \in {"start", "list", "loop", "wait", "remove", "done", "raised"}
    /\ idx \in 0..(MaxFiles + 1)
    /\ Len(wav_files) <= MaxFiles

----------------------------------------------------------------------------
(* C1: the program removes a file only if it is a candidate .wav file whose *)
(* own encoder run exited zero earlier; a candidate whose encoder exited    *)
(* non-zero or could not be spawned still exists at the end; no .ogg file   *)
(* and no non-candidate entry is ever removed.                              *)
C1_RemoveOnlyAfterOwnSuccess ==
    /\ \A i \in LogIdx :
         (log[i].ev = "remove" /\ log[i].n = 1) =>
            /\ HasWavSuffix(log[i].file)
            /\ Listed(log[i].file)
            /\ log[i].path = Join(directory, log[i].file)
            /\ \E j \in 1..(i - 1) : ExitedZero(j, log[i].file)
    /\ \A p \in fs0 \ fs :
         \E f \in Names :
            /\ HasWavSuffix(f) /\ Listed(f) /\ p = Join(directory, f)
            /\ \E j \in LogIdx : ExitedZero(j, f)
    /\ \A p \in fs0 : EndsWith(p, OGG) => p \in fs
    /\ \A i \in LogIdx : (log[i].ev = "exit" /\ log[i].msg = "wrote") => log[i].out \in fs
    /\ pc = "done" =>
         \A k \in 1..Len(wav_files) :
            (~ \E j \in LogIdx : ExitedZero(j, wav_files[k]))
               => Join(directory, wav_files[k]) \in fs

C1_Witness ==
    /\ pc = "done"
    /\ \E i, j \in LogIdx :
         /\ log[i].ev = "remove" /\ log[i].n = 1
         /\ log[j].ev = "exit" /\ log[j].n = 1 /\ log[j].msg = "wrote"
         /\ Join(directory, log[j].file) \in fs
         /\ OggFilePath(directory, log[j].file) \in fs

(* C2: with the encoder resolvable and a non-empty candidate list, the      *)
(* encoder is invoked exactly once per candidate, in listing order,         *)
(* whatever the outcome of earlier candidates, and the completion message   *)
(* is printed exactly once, after the last candidate has been handled.      *)
C2_EveryCandidateAttempted ==
    (Started /\ wav_files # <<>>) =>
        /\ pc # "raised"
        /\ Len(RunFiles) <= Len(wav_files)
        /\ RunFiles = SubSeq(wav_files, 1, Len(RunFiles))
        /\ wav_files = SelectSeq(listing, HasWavSuffix)
        /\ pc = "done" =>
              /\ RunFiles = wav_files
              /\ Len(SelectSeq(log, IsFinishedMsg)) = 1
              /\ IsFinishedMsg(log[Len(log)])
        /\ pc # "done" => Len(SelectSeq(log, IsFinishedMsg)) = 0

C2_Witness ==
    /\ pc = "done"
    /\ Len(RunFiles) = 2
    /\ \E i, j \in LogIdx :
         /\ i < j
         /\ log[i].ev = "remove" /\ log[i].n = 0 /\ log[i].file = wav_files[1]
         /\ log[j].ev = "exit" /\ log[j].n = 1 /\ log[j].file = wav_files[2]

(* C3: if the directory does not exist or cannot be listed for any other    *)
(* reason, an error message naming the directory is printed and the         *)
(* function returns normally: no exception leaves it, no encoder is         *)
(* spawned, no file is deleted.                                             *)
C3_UnlistableDirectoryReported ==
    (Started /\ ffmpeg_found /\ dir_state # "ok") =>
        /\ pc = "done"
        /\ exc = "none"
        /\ \E i \in LogIdx : Said(i, "dir_not_found") /\ log[i].path = directory
        /\ \A i \in LogIdx : log[i].ev \notin {"run", "remove"}
        /\ fs = fs0

(* C4: if the encoder is not resolvable, the lookup is done once, a message *)
(* is printed and the function returns without listing, spawning or         *)
(* deleting; the lookup happens exactly once per invocation and precedes    *)
(* every directory read, spawn and delete.                                  *)
C4_MissingEncoderStopsEverything ==
    /\ (~ffmpeg_found /\ pc # "start") =>
          /\ pc = "done"
          /\ log = << Which, Msg("no_ffmpeg", <<>>, <<>>, <<>>, 0),
                      Msg("install_hint", <<>>, <<>>, <<>>, 0) >>
          /\ fs = fs0
    /\ pc # "start" => Cardinality({i \in LogIdx : log[i].ev = "which"}) = 1
    /\ \A i \in LogIdx :
          log[i].ev \in {"listdir", "run", "remove"} =>
             \E j \in 1..(i - 1) : log[j].ev = "which"

C4_Witness ==
    /\ ~ffmpeg_found
    /\ pc = "done"
    /\ \E i \in 1..Len(listing) : HasWavSuffix(listing[i])

----------------------------------------------------------------------------
\* the run is over and every candidate's encoder exited zero and wrote
AllEncoded ==
    /\ pc = "done"
    /\ wav_files # <<>>
    /\ \A k \in 1..Len(wav_files) :
          \E i \in LogIdx : ExitedZero(i, wav_files[k]) /\ log[i].msg = "wrote"

NewOggs == {p \in fs \ fs0 : EndsWith(p, OGG)}

(* C5 as stated: with N candidates of any names and an encoder that exits   *)
(* zero and writes its output every time, afterwards N new .ogg files       *)
(* exist, no candidate .wav remains and N success messages were printed in  *)
(* listing order.                                                           *)
C5_Original ==
    AllEncoded =>
        /\ Cardinality(NewOggs) = Len(wav_files)
        /\ \A k \in 1..Len(wav_files) : Join(directory, wav_files[k]) \notin fs
        /\ SuccessFiles = wav_files

(* C5 amended: ... afterwards N success messages were printed in listing    *)
(* order, the derived .ogg output of every candidate exists, a candidate    *)
(* .wav remains exactly when its deletion failed, and the new .ogg files    *)
(* are the distinct derived output paths that did not exist before.         *)
C5_AllEncodedOutcome ==
    AllEncoded =>
        /\ SuccessFiles = wav_files
        /\ \A k \in 1..Len(wav_files) :
              /\ OggFilePath(directory, wav_files[k]) \in fs
              /\ Join(directory, wav_files[k]) \in fs
                    <=> \E i \in LogIdx : /\ log[i].ev = "remove" /\ log[i].n = 0
                                          /\ log[i].file = wav_files[k]
        /\ NewOggs = { OggFilePath(directory, wav_files[k]) : k \in 1..Len(wav_files) } \ fs0
        /\ Cardinality(NewOggs) <= Len(wav_files)

C5_Witness ==
    /\ AllEncoded
    /\ Len(wav_files) = 2
    /\ Cardinality(NewOggs) = 1
    /\ \A k \in 1..2 : Join(directory, wav_files[k]) \notin fs
    /\ fs0 \ fs # {}

(* C6 as stated: for every candidate base + '.wav' in any casing (base      *)
(* empty, starting with a dot, or with any number of dots), the output path *)
(* passed to the encoder is the directory joined with base + '.ogg'.        *)
C6_Original ==
    \A i \in LogIdx :
        (log[i].ev = "run" /\ HasWavSuffix(log[i].file)) =>
            log[i].out = Join(directory, BaseOf(log[i].file) \o OGG)

\* the base holds a character that is not a dot
HasNonDot(base) == \E k \in 1..Len(base) : base[k] # DOT

(* C6 amended: for every candidate base + '.wav' in any casing whose base   *)
(* holds at least one character other than a dot, the output path passed to *)
(* the encoder is the directory joined with base + '.ogg' (base unchanged,  *)
(* lowercase '.ogg'); when the base is empty or made of dots only, it is    *)
(* the directory joined with the whole name + '.ogg'.                       *)
C6_OutputPath ==
    \A i \in LogIdx :
        (log[i].ev = "run" /\ HasWavSuffix(log[i].file)) =>
            /\ log[i].path = Join(directory, log[i].file)
            /\ log[i].out =
                  IF HasNonDot(BaseOf(log[i].file))
                  THEN Join(directory, BaseOf(log[i].file) \o OGG)
                  ELSE Join(directory, log[i].file \o OGG)

C6_Witness ==
    \E i, j \in LogIdx :
        /\ log[i].ev = "run" /\ log[j].ev = "run"
        /\ log[i].file = <<"A", ".", "b", ".", "W", "a", "v">>
        /\ log[i].out = Join(directory, <<"A", ".", "b", ".", "o", "g", "g">>)
        /\ BaseOf(log[j].file) \in { <<>>, <<".">> }

(* C7: the candidate list is exactly the subsequence of the listing whose   *)
(* lowercased names end with '.wav' (order and repetitions kept), and it is *)
(* not changed after the filter, in particular not by the deletions.        *)
C7_CandidateList ==
    /\ []((dir_state = "ok" /\ \E i \in LogIdx : log[i].ev = "listdir") =>
            /\ all_files = listing
            /\ wav_files = SelectSeq(listing, HasWavSuffix))
    /\ [][(pc \in {"loop", "wait", "remove", "done"}) => (wav_files' = wav_files)]_vars

C7_Witness ==
    /\ pc = "done"
    /\ Len(wav_files) = 2
    /\ wav_files[1] = wav_files[2]
    /\ \E c \in {"W", "A", "V"}, k \in 1..Len(wav_files[1]) : wav_files[1][k] = c
    /\ Len(listing) = 2
    /\ \E i \in LogIdx : log[i].ev = "remove" /\ log[i].n = 1

(* C8: if the encoder exits zero but deleting the source fails, the failure *)
(* is reported with the unexpected-error message for that file, the source  *)
(* still exists, no deletion confirmation is printed for it, and the loop   *)
(* handles every remaining candidate and prints the completion message.     *)
C8_DeleteFailureRecovered ==
    (\E i \in LogIdx : log[i].ev = "remove" /\ log[i].n = 0) =>
        /\ \A i \in LogIdx :
              (log[i].ev = "remove" /\ log[i].n = 0) =>
                 /\ \E j \in 1..(i - 1) : ExitedZero(j, log[i].file)
                 /\ i < Len(log)
                 /\ Said(i + 1, "unexpected") /\ log[i + 1].file = log[i].file
                 /\ log[i].path \in fs
                 /\ ~ \E j \in LogIdx : Said(j, "deleted") /\ log[j].file = log[i].file
        /\ pc \in {"loop", "wait", "remove", "done"}
        /\ pc = "done" =>
              /\ RunFiles = wav_files
              /\ IsFinishedMsg(log[Len(log)])

C8_Witness ==
    /\ pc = "done"
    /\ Len(wav_files) = 2
    /\ \E i, j \in LogIdx :
          /\ i < j
          /\ log[i].ev = "remove" /\ log[i].n = 0 /\ log[i].file = wav_files[1]
          /\ log[j].ev = "remove" /\ log[j].n = 1 /\ log[j].file = wav_files[2]

(* C9: if the listing succeeds but holds no name whose lowercased form ends *)
(* with '.wav', the 'no .wav files found' message naming the directory is   *)
(* printed and the function returns with no encoder run, no deletion, no    *)
(* 'Found N' message and no completion message.                             *)
C9_NoCandidates ==
    (/\ Started /\ ffmpeg_found /\ dir_state = "ok"
     /\ \A i \in 1..Len(listing) : ~HasWavSuffix(listing[i])) =>
        /\ pc = "done"
        /\ log = << Which, ListDir(directory),
                    Msg("no_wav", <<>>, directory, <<>>, 0) >>
        /\ fs = fs0

C9_Witness ==
    /\ pc = "done"
    /\ Len(listing) = 2
    /\ \E i \in LogIdx : Said(i, "no_wav")

\* the terminal messages printed for file f
TerminalMsgs(f) ==
    { i \in LogIdx : /\ log[i].file = f
                     /\ Said(i, "deleted") \/ Said(i, "failed") \/ Said(i, "unexpected") }

(* C10: for every candidate handled by the loop exactly one of the three    *)
(* terminal messages is printed; the deletion confirmation is printed iff   *)
(* the source was actually removed and is preceded by the success message   *)
(* for the same file, which is printed only after the encoder exited zero   *)
(* and before the deletion is attempted.                                    *)
C10_OneOutcomePerCandidate ==
    (pc \in {"loop", "wait", "remove", "done"}) =>
        /\ \A k \in 1..Len(wav_files) :
              Cardinality(TerminalMsgs(wav_files[k])) = IF k < idx THEN 1 ELSE 0
        /\ \A k \in 1..Len(wav_files) :
              (\E i \in LogIdx : Said(i, "deleted") /\ log[i].file = wav_files[k])
                 <=> Join(directory, wav_files[k]) \notin fs
        /\ \A i \in LogIdx :
              Said(i, "deleted") =>
                 \E j \in 1..(i - 1) : IsSuccessMsg(log[j]) /\ log[j].file = log[i].file
        /\ \A j \in LogIdx :
              IsSuccessMsg(log[j]) =>
                 /\ \E k \in 1..(j - 1) : ExitedZero(k, log[j].file)
                 /\ \A m \in LogIdx :
                       (log[m].ev = "remove" /\ log[m].file = log[j].file) => j < m

C10_Witness ==
    /\ pc = "done"
    /\ \E i, j \in LogIdx :
          /\ Said(i, "deleted") /\ Said(j, "failed")
          /\ i < j
====
